---- MODULE Spec2Model ----
(***************************************************************************)
(* Ultimate tic-tac-toe: the bitboard rule engine of src/src/tictactoe.ts  *)
(* (class Game and its helpers) and the Monte Carlo tree search of         *)
(* src/src/mcts.ts (classes MonteCarloNode and MonteCarlo).  A GameState   *)
(* is a record; the methods of Game are operators from a GameState (and a  *)
(* Move) to the GameState the method leaves behind, the methods of the     *)
(* search engine are operators on the map of its nodes, and the actions    *)
(* below are calls of these methods.  The page (src/unnamed/part_001) and  *)
(* its worker (src/src/mcts.worker.ts) are two such callers that exchange  *)
(* messages.                                                               *)
(***************************************************************************)
EXTENDS Integers, Sequences, FiniteSets, TLC

\* ------------------------------------------------------------------------
\* Types
\* ------------------------------------------------------------------------

\* type Player = 'X' | 'O'
Player == {"X", "O"}

\* type Tile = Player | null : the empty tile
null == "null"

\* the sentinel value 'any' of GameState.activeSubgrid (a Coordinate is a
\* pair <<x, y>>, the sentinel is the tuple of length 0)
any == <<>>

\* the nine subgrid coordinates, and the 81 global coordinates
SubgridCoords == {<<x, y>> : x \in 0..2, y \in 0..2}
Coords == {<<x, y>> : x \in 0..8, y \in 0..8}

otherPlayer(player) == IF player = "X" THEN "O" ELSE "X"

coordinatesEqual(a, b) == a[1] = b[1] /\ a[2] = b[2]

isPlayer(tile) == tile = "X" \/ tile = "O"

\* ------------------------------------------------------------------------
\* Bitboards: 9-bit masks, index = x + y * 3
\* ------------------------------------------------------------------------

\* 0b111111111, all nine cells of a 3x3 grid
FullMask == 511

\* bit i of a mask
Bit(a, i) == (a \div (2 ^ i)) % 2

\* a & b on non-negative integers
RECURSIVE BitAnd(_, _)
BitAnd(a, b) ==
    IF a = 0 \/ b = 0 THEN 0
    ELSE (a % 2) * (b % 2) + 2 * BitAnd(a \div 2, b \div 2)

\* a | b on non-negative integers
RECURSIVE BitOr(_, _)
BitOr(a, b) ==
    IF a = 0 THEN b
    ELSE IF b = 0 THEN a
    ELSE (IF a % 2 = 1 \/ b % 2 = 1 THEN 1 ELSE 0) + 2 * BitOr(a \div 2, b \div 2)

getBit(bitboard, x, y) ==
    LET index == x + y * 3
    IN  Bit(bitboard, index)

setBit(bitboard, x, y) ==
    LET index == x + y * 3
    IN  BitOr(bitboard, 2 ^ index)

unsetBit(bitboard, x, y) ==
    LET index == x + y * 3
    IN  IF Bit(bitboard, index) = 1 THEN bitboard - 2 ^ index ELSE bitboard

\* the eight masks with 0b001010101 for the last one
WinMasksTypo == <<448, 56, 7, 292, 146, 73, 273, 85>>

\* the eight masks isBitboardWinning tests, in the order it tests them:
\* 0b111000000, 0b000111000, 0b000000111, 0b100100100, 0b010010010,
\* 0b001001001, 0b100010001, 0b001010100
WinMasks == <<448, 56, 7, 292, 146, 73, 273, 84>>

\* isBitboardWinning, tabulated over the 9-bit masks
IsWinning ==
    [bitboard \in 0..FullMask |->
        \E i \in 1..Len(WinMasks) : BitAnd(bitboard, WinMasks[i]) = WinMasks[i]]

isBitboardWinning(bitboard) == IsWinning[bitboard]

\* bitboardGridResult with the second player's win reported under the first
\* player's label
bitboardGridResultOneLabel(xBitboard, yBitboard) ==
    LET xWin == isBitboardWinning(xBitboard)
        yWin == isBitboardWinning(yBitboard)
    IN  IF xWin THEN "X"
        ELSE IF yWin THEN "X"
        ELSE IF BitOr(xBitboard, yBitboard) = FullMask THEN "draw"
        ELSE "none"

bitboardGridResult(xBitboard, yBitboard) ==
    LET xWin == isBitboardWinning(xBitboard)
        yWin == isBitboardWinning(yBitboard)
    IN  IF xWin THEN "X"
        ELSE IF yWin THEN "O"
        ELSE IF BitOr(xBitboard, yBitboard) = FullMask THEN "draw"
        ELSE "none"

\* ------------------------------------------------------------------------
\* GameState and Move
\* ------------------------------------------------------------------------

initialGameState ==
    [ aSubgridBitboard |-> [i \in 0..8 |-> 0],
      bSubgridBitboard |-> [i \in 0..8 |-> 0],
      activeSubgrid    |-> any,
      playerToMove     |-> "X",
      complete         |-> FALSE,
      moves            |-> <<>> ]

\* interface Move
Move(coordinate, player, currentSubgrid) ==
    [coordinate |-> coordinate, player |-> player, currentSubgrid |-> currentSubgrid]

\* ------------------------------------------------------------------------
\* class Game, as operators on a GameState s
\* ------------------------------------------------------------------------

checkWinSubgrid(s, subgrid) ==
    LET idx == subgrid[1] + subgrid[2] * 3
    IN  bitboardGridResult(s.aSubgridBitboard[idx], s.bSubgridBitboard[idx])

\* the k-th subgrid visited by the loops "for x in 0..2, for y in 0..2"
LoopCoord(k) == <<k \div 3, k % 3>>

\* the masks with the subgrids won by O set in the mask of X
RECURSIVE WholeBoardMasksOneBoard(_, _)
WholeBoardMasksOneBoard(s, k) ==
    IF k = 0 THEN [x |-> 0, y |-> 0, neutral |-> 0]
    ELSE LET acc == WholeBoardMasksOneBoard(s, k - 1)
             c == LoopCoord(k - 1)
             subgridResult == checkWinSubgrid(s, c)
         IN  IF subgridResult = "X" THEN [acc EXCEPT !.x = setBit(@, c[1], c[2])]
             ELSE IF subgridResult = "O" THEN [acc EXCEPT !.x = setBit(@, c[1], c[2])]
             ELSE IF subgridResult = "draw"
                  THEN [acc EXCEPT !.neutral = setBit(@, c[1], c[2])]
             ELSE acc

\* the three masks checkWinWholeBoard has accumulated after visiting the
\* first k subgrids of its double loop
RECURSIVE WholeBoardMasks(_, _)
WholeBoardMasks(s, k) ==
    IF k = 0 THEN [x |-> 0, y |-> 0, neutral |-> 0]
    ELSE LET acc == WholeBoardMasks(s, k - 1)
             c == LoopCoord(k - 1)
             subgridResult == checkWinSubgrid(s, c)
         IN  IF subgridResult = "X" THEN [acc EXCEPT !.x = setBit(@, c[1], c[2])]
             ELSE IF subgridResult = "O" THEN [acc EXCEPT !.y = setBit(@, c[1], c[2])]
             ELSE IF subgridResult = "draw"
                  THEN [acc EXCEPT !.neutral = setBit(@, c[1], c[2])]
             ELSE acc

\* a checkWinWholeBoard that forgets the drawn subgrids
checkWinWholeBoardNoNeutral(s) ==
    LET m == WholeBoardMasks(s, 9)
        playerResult == bitboardGridResult(m.x, m.y)
    IN  IF isPlayer(playerResult) THEN playerResult
        ELSE IF playerResult = "draw" THEN "draw"
        ELSE "none"

checkWinWholeBoard(s) ==
    LET m == WholeBoardMasks(s, 9)
        playerResult == bitboardGridResult(m.x, m.y)
    IN  IF isPlayer(playerResult) THEN playerResult
        ELSE IF playerResult = "draw" \/ BitOr(BitOr(m.x, m.y), m.neutral) = FullMask
             THEN "draw"
        ELSE "none"

\* a getTile that reads the X bitboard twice
getTileOneBoard(s, coordinate) ==
    LET subgridX == coordinate[1] \div 3
        subgridY == coordinate[2] \div 3
        idx == subgridX + subgridY * 3
        x == coordinate[1] % 3
        y == coordinate[2] % 3
    IN  IF getBit(s.aSubgridBitboard[idx], x, y) = 1 THEN "X"
        ELSE IF getBit(s.aSubgridBitboard[idx], x, y) = 1 THEN "O"
        ELSE null

getTile(s, coordinate) ==
    LET subgridX == coordinate[1] \div 3
        subgridY == coordinate[2] \div 3
        idx == subgridX + subgridY * 3
        x == coordinate[1] % 3
        y == coordinate[2] % 3
    IN  IF getBit(s.aSubgridBitboard[idx], x, y) = 1 THEN "X"
        ELSE IF getBit(s.bSubgridBitboard[idx], x, y) = 1 THEN "O"
        ELSE null

\* the cells of a subgrid in the order of the loops
\* "for offsetX in 0..2, for offsetY in 0..2"
OffsetOrder == [k \in 1..9 |-> <<(k - 1) \div 3, (k - 1) % 3>>]

legalMovesSubgrid(s, subgrid) ==
    LET idx == subgrid[1] + subgrid[2] * 3
        xBitboard == s.aSubgridBitboard[idx]
        yBitboard == s.bSubgridBitboard[idx]
        Free(o) == ~(getBit(xBitboard, o[1], o[2]) = 1 \/ getBit(yBitboard, o[1], o[2]) = 1)
        free == SelectSeq(OffsetOrder, Free)
    IN  [k \in 1..Len(free) |->
            Move(<<subgrid[1] * 3 + free[k][1], subgrid[2] * 3 + free[k][2]>>,
                 s.playerToMove, subgrid)]

\* the moves legalMoves has pushed after visiting the first k subgrids
RECURSIVE LegalMovesUpTo(_, _)
LegalMovesUpTo(s, k) ==
    IF k = 0 THEN <<>>
    ELSE LET c == LoopCoord(k - 1)
             rest == LegalMovesUpTo(s, k - 1)
         IN  IF checkWinSubgrid(s, c) # "none" THEN rest
             ELSE IF s.activeSubgrid = any \/ coordinatesEqual(s.activeSubgrid, c)
                  THEN rest \o legalMovesSubgrid(s, c)
             ELSE rest

legalMoves(s) == IF s.complete THEN <<>> ELSE LegalMovesUpTo(s, 9)

\* doMove: the exception it throws on (s, move), "none" when it throws nothing
doMoveError(s, move) ==
    LET subgridX == move.coordinate[1] \div 3
        subgridY == move.coordinate[2] \div 3
    IN  IF getTile(s, move.coordinate) # null THEN "TileTaken"
        ELSE IF s.activeSubgrid # any
                /\ ~coordinatesEqual(s.activeSubgrid, <<subgridX, subgridY>>)
             THEN "NotActiveSubgrid"
        ELSE "none"

\* a doMove that pushes the move before it checks it
doMoveThrownAfterPush(s, move) == [s EXCEPT !.moves = Append(@, move)]

\* doMove: the state a throwing call leaves behind (both throws come before
\* the first assignment)
doMoveThrown(s, move) == s

\* a doMove that marks the cell in the subgrid of the transposed index
doMoveMarkedTransposed(s, move) ==
    LET subgridX == move.coordinate[1] \div 3
        subgridY == move.coordinate[2] \div 3
        offsetX == move.coordinate[1] % 3
        offsetY == move.coordinate[2] % 3
        idx == subgridY + subgridX * 3
        xBitboard == s.aSubgridBitboard[idx]
        yBitboard == s.bSubgridBitboard[idx]
        s1 == [s EXCEPT !.moves = Append(@, move)]
    IN  IF move.player = "X"
        THEN [s1 EXCEPT !.aSubgridBitboard[idx] = setBit(xBitboard, offsetX, offsetY)]
        ELSE [s1 EXCEPT !.bSubgridBitboard[idx] = setBit(yBitboard, offsetX, offsetY)]

\* doMove: the move pushed on the history and its cell marked
doMoveMarked(s, move) ==
    LET subgridX == move.coordinate[1] \div 3
        subgridY == move.coordinate[2] \div 3
        offsetX == move.coordinate[1] % 3
        offsetY == move.coordinate[2] % 3
        idx == subgridX + subgridY * 3
        xBitboard == s.aSubgridBitboard[idx]
        yBitboard == s.bSubgridBitboard[idx]
        s1 == [s EXCEPT !.moves = Append(@, move)]
    IN  IF move.player = "X"
        THEN [s1 EXCEPT !.aSubgridBitboard[idx] = setBit(xBitboard, offsetX, offsetY)]
        ELSE [s1 EXCEPT !.bSubgridBitboard[idx] = setBit(yBitboard, offsetX, offsetY)]

\* a doMove that sends the opponent to the subgrid the move was played in
doMoveActiveSubgridOfMove(s, move) ==
    LET subgridX == move.coordinate[1] \div 3
        subgridY == move.coordinate[2] \div 3
    IN  IF checkWinSubgrid(s, <<subgridX, subgridY>>) # "none" THEN any
        ELSE <<subgridX, subgridY>>

\* a doMove that never frees the opponent from a decided subgrid
doMoveActiveSubgridForced(s, move) ==
    <<move.coordinate[1] % 3, move.coordinate[2] % 3>>

\* doMove: the activeSubgrid it sets, s being the state with the cell marked
doMoveActiveSubgrid(s, move) ==
    LET offsetX == move.coordinate[1] % 3
        offsetY == move.coordinate[2] % 3
        s1 == [s EXCEPT !.activeSubgrid = <<offsetX, offsetY>>]
        subgridOutcome == checkWinSubgrid(s1, <<offsetX, offsetY>>)
    IN  IF subgridOutcome # "none" THEN any ELSE s1.activeSubgrid

\* doMove: the state a call that passes both checks leaves behind
doMoveApplied(s, move) ==
    LET s1 == doMoveMarked(s, move)
        s2 == [s1 EXCEPT !.activeSubgrid = doMoveActiveSubgrid(s1, move)]
        s3 == [s2 EXCEPT !.playerToMove = otherPlayer(move.player)]
    IN  [s3 EXCEPT !.complete = (checkWinWholeBoard(s3) # "none")]

\* an undoMove that leaves complete as it is
undoMoveKeepsComplete(s, move) ==
    LET subgridX == move.coordinate[1] \div 3
        subgridY == move.coordinate[2] \div 3
        offsetX == move.coordinate[1] % 3
        offsetY == move.coordinate[2] % 3
        idx == subgridX + subgridY * 3
        s1 == [s EXCEPT !.moves = IF Len(@) = 0 THEN @ ELSE SubSeq(@, 1, Len(@) - 1)]
        s2 == IF move.player = "X"
              THEN [s1 EXCEPT !.aSubgridBitboard[idx] =
                                  unsetBit(s.aSubgridBitboard[idx], offsetX, offsetY)]
              ELSE [s1 EXCEPT !.bSubgridBitboard[idx] =
                                  unsetBit(s.bSubgridBitboard[idx], offsetX, offsetY)]
        s3 == [s2 EXCEPT !.activeSubgrid = move.currentSubgrid]
    IN  [s3 EXCEPT !.playerToMove = move.player]

\* undoMove: the state the call leaves behind (it throws nothing)
undoMove(s, move) ==
    LET subgridX == move.coordinate[1] \div 3
        subgridY == move.coordinate[2] \div 3
        offsetX == move.coordinate[1] % 3
        offsetY == move.coordinate[2] % 3
        idx == subgridX + subgridY * 3
        \* Array.prototype.pop: a no-op on the empty array
        s1 == [s EXCEPT !.moves = IF Len(@) = 0 THEN @ ELSE SubSeq(@, 1, Len(@) - 1)]
        s2 == IF move.player = "X"
              THEN [s1 EXCEPT !.aSubgridBitboard[idx] =
                                  unsetBit(s.aSubgridBitboard[idx], offsetX, offsetY)]
              ELSE [s1 EXCEPT !.bSubgridBitboard[idx] =
                                  unsetBit(s.bSubgridBitboard[idx], offsetX, offsetY)]
        s3 == [s2 EXCEPT !.activeSubgrid = move.currentSubgrid]
        s4 == [s3 EXCEPT !.playerToMove = move.player]
    IN  [s4 EXCEPT !.complete = FALSE]

\* a hash whose tokens leave out the player
hashTokenNoPlayer(move) ==
    ToString(move.coordinate[1]) \o "," \o ToString(move.coordinate[2])

\* hash: the string of one move, move.coordinate.join(move.player)
hashToken(move) ==
    ToString(move.coordinate[1]) \o move.player \o ToString(move.coordinate[2])

\* the strings of the moves i..j joined by " "
RECURSIVE HashRange(_, _, _)
HashRange(moves, i, j) ==
    IF i > j THEN ""
    ELSE IF i = j THEN hashToken(moves[i])
    ELSE LET mid == (i + j) \div 2
         IN  HashRange(moves, i, mid) \o " " \o HashRange(moves, mid + 1, j)

hash(s) == HashRange(s.moves, 1, Len(s.moves))

\* the state a hook called before the last update of doMove would find
onMoveStateBeforeComplete(s, move) ==
    [doMoveApplied(s, move) EXCEPT !.complete = s.complete]

\* doMove: the state in which the hook onMove(move) is called, the last
\* statement of an accepted doMove
onMoveState(s, move) == doMoveApplied(s, move)

\* ------------------------------------------------------------------------
\* class MonteCarloNode (src/src/mcts.ts).  A reference to a node is a
\* tuple: <<>> is null, <<key>> is the node registered under key in
\* MonteCarlo.nodes.  A nullable value v is <<>> for null and <<v>> otherwise.
\* ------------------------------------------------------------------------

NoNode == <<>>

moveHash(move) ==
    ToString(move.coordinate[1]) \o move.player \o ToString(move.coordinate[2])

\* a constructor that counts the creation of the node as a play
MonteCarloNodePlayed(parent, play, state, shared, unexpandedPlays) ==
    [ play     |-> play,
      state    |-> state,
      shared   |-> shared,
      n_plays  |-> 1,
      n_wins   |-> 0,
      parent   |-> parent,
      children |-> [i \in 1..Len(unexpandedPlays) |->
                        [play |-> unexpandedPlays[i], node |-> NoNode]] ]

\* new MonteCarloNode(parent, play, state, unexpandedPlays); shared tells
\* that state is the Game object of the caller and not a copy
MonteCarloNode(parent, play, state, shared, unexpandedPlays) ==
    [ play     |-> play,
      state    |-> state,
      shared   |-> shared,
      n_plays  |-> 0,
      n_wins   |-> 0,
      parent   |-> parent,
      children |-> [i \in 1..Len(unexpandedPlays) |->
                        [play |-> unexpandedPlays[i], node |-> NoNode]] ]

\* node.state.currentState, game being the currentState of the caller's Game
stateOf(node, game) == IF node.shared THEN game ELSE node.state

\* the position of children.get(moveHash(play)), 0 when it is undefined
childIndex(node, play) ==
    IF \E i \in 1..Len(node.children) : moveHash(node.children[i].play) = moveHash(play)
    THEN CHOOSE i \in 1..Len(node.children) :
            moveHash(node.children[i].play) = moveHash(play)
    ELSE 0

\* childNode: the exception it throws, "none" when it throws nothing
childNodeError(node, play) ==
    IF childIndex(node, play) = 0 THEN "ChildNotFound"
    ELSE IF node.children[childIndex(node, play)].node = NoNode THEN "ChildNotExpanded"
    ELSE "none"

\* childNode: the key of the node it returns
childNode(node, play) == node.children[childIndex(node, play)].node[1]

allPlays(node) == [i \in 1..Len(node.children) |-> node.children[i].play]

unexpandedPlays(node) ==
    LET Unexpanded(child) == child.node = NoNode
        open == SelectSeq(node.children, Unexpanded)
    IN  [i \in 1..Len(open) |-> open[i].play]

isFullyExpanded(node) == \A i \in 1..Len(node.children) : node.children[i].node # NoNode

isLeaf(node) == Len(node.children) = 0

\* Math.log(n) * 10^8 rounded, for n = 1..16
LnTable ==
    <<0, 69314718, 109861229, 138629436, 160943791, 179175947, 194591015, 207944154,
      219722458, 230258509, 239789527, 248490665, 256494936, 263905733, 270805020,
      277258872>>

\* the integer part of the square root of x, searched between lo and hi
RECURSIVE IsqrtIn(_, _, _)
IsqrtIn(x, lo, hi) ==
    IF lo >= hi THEN lo
    ELSE LET mid == (lo + hi + 1) \div 2
         IN  IF mid * mid <= x THEN IsqrtIn(x, mid, hi) ELSE IsqrtIn(x, lo, mid - 1)

\* getUCB1 in units of 10^-4, rounded down: n_wins / n_plays +
\* sqrt(biasParam * log(parent.n_plays) / n_plays); -1 stands for NaN (0 / 0,
\* or the square root of a negative number), which no comparison exceeds
getUCB1(node, parent, biasParam) ==
    IF node.n_plays = 0 \/ parent.n_plays = 0 THEN -1
    ELSE (node.n_wins * 10000) \div node.n_plays
         + IsqrtIn((biasParam * LnTable[parent.n_plays]) \div node.n_plays, 0, 46340)

\* ------------------------------------------------------------------------
\* class MonteCarlo (src/src/mcts.ts): nodes is a function from the hash()
\* strings registered so far to nodes; game is the currentState of the Game
\* the caller passes as state
\* ------------------------------------------------------------------------

UCB1ExploreParam == 2

\* new Map()
NoNodes == [key \in {} |-> NoNode]

\* a makeNode that registers a new node whatever is registered
makeNodeAlways(nodes, game) ==
    (hash(game) :> MonteCarloNode(NoNode, <<>>, game, TRUE, legalMoves(game))) @@ nodes

\* makeNode: nodes afterwards
makeNode(nodes, game) ==
    IF hash(game) \in DOMAIN nodes THEN nodes
    ELSE (hash(game) :> MonteCarloNode(NoNode, <<>>, game, TRUE, legalMoves(game))) @@ nodes

\* select: node.childNode(play).getUCB1(this.UCB1ExploreParam) for the
\* i-th play of a fully expanded node
childUCB1(nodes, node, i) ==
    getUCB1(nodes[childNode(node, node.children[i].play)], node, UCB1ExploreParam)

\* select: its loop over plays from the i-th play on, bestPlay being the
\* position of the best play so far (0 for undefined) and bestUCB1 its UCB1
\* (-1 for -Infinity)
RECURSIVE scanUCB1(_, _, _, _, _)
scanUCB1(nodes, node, i, bestPlay, bestUCB1) ==
    IF i > Len(node.children) THEN bestPlay
    ELSE IF childUCB1(nodes, node, i) > bestUCB1
         THEN scanUCB1(nodes, node, i + 1, i, childUCB1(nodes, node, i))
         ELSE scanUCB1(nodes, node, i + 1, bestPlay, bestUCB1)

\* a select that keeps the last of the plays of maximal UCB1
bestUCB1IndexLast(nodes, node) ==
    LET n == Len(node.children)
    IN  IF \A i \in 1..n : childUCB1(nodes, node, i) <= -1 THEN 0
        ELSE CHOOSE i \in 1..n :
                /\ \A j \in 1..n : childUCB1(nodes, node, j) <= childUCB1(nodes, node, i)
                /\ \A j \in (i + 1)..n : childUCB1(nodes, node, j) < childUCB1(nodes, node, i)

\* select: the position of bestPlay among the plays of a fully expanded
\* node when its loop over plays ends; 0 when bestPlay is undefined
bestUCB1Index(nodes, node) == scanUCB1(nodes, node, 1, 0, -1)

\* select: the key of the node the loop of select ends on, started on key
RECURSIVE selectFrom(_, _)
selectFrom(nodes, key) ==
    LET node == nodes[key]
    IN  IF isFullyExpanded(node) /\ ~isLeaf(node) /\ bestUCB1Index(nodes, node) # 0
        THEN selectFrom(nodes, childNode(node, node.children[bestUCB1Index(nodes, node)].play))
        ELSE key

select(nodes, game) == selectFrom(nodes, hash(game))

\* select: the keys of the nodes on which its loop, started on key, calls
\* getUCB1
RECURSIVE selectEvaluated(_, _)
selectEvaluated(nodes, key) ==
    LET node == nodes[key]
        plays == allPlays(node)
        called == {childNode(node, plays[i]) : i \in 1..Len(plays)}
    IN  IF isFullyExpanded(node) /\ ~isLeaf(node)
        THEN IF bestUCB1Index(nodes, node) # 0
             THEN called \cup selectEvaluated(nodes,
                                 childNode(node, plays[bestUCB1Index(nodes, node)]))
             ELSE called
        ELSE {}

\* select throws 'No best play found' on the node it ends on
selectError(nodes, game) ==
    LET node == nodes[select(nodes, game)]
    IN  IF isFullyExpanded(node) /\ ~isLeaf(node) THEN "NoBestPlay" ELSE "none"

\* expand with randomMove the i-th unexpanded play of the node under key:
\* the state of the child
expandState(nodes, key, i, game) ==
    doMoveApplied(stateOf(nodes[key], game), unexpandedPlays(nodes[key])[i])

\* an expand that gives the child no parent
expandOrphan(nodes, key, i, game) ==
    LET node == nodes[key]
        randomMove == unexpandedPlays(node)[i]
        childState == expandState(nodes, key, i, game)
        childNodeNew == MonteCarloNode(NoNode, <<randomMove>>, childState, FALSE,
                                       legalMoves(childState))
        k == childIndex(node, randomMove)
        linked == [nodes EXCEPT ![key].children[k] =
                        [play |-> randomMove, node |-> <<hash(childState)>>]]
    IN  (hash(childState) :> childNodeNew) @@ linked

\* an expand that applies randomMove to the state of the node itself, not
\* to a copy
expandNoCopy(nodes, key, i, game) ==
    LET node == nodes[key]
        randomMove == unexpandedPlays(node)[i]
        childState == expandState(nodes, key, i, game)
        childNodeNew == MonteCarloNode(<<key>>, <<randomMove>>, childState, FALSE,
                                       legalMoves(childState))
        k == childIndex(node, randomMove)
        linked == [nodes EXCEPT ![key].children[k] =
                        [play |-> randomMove, node |-> <<hash(childState)>>],
                                ![key].state = childState]
    IN  (hash(childState) :> childNodeNew) @@ linked

\* expand with randomMove the i-th unexpanded play: the nodes afterwards
expand(nodes, key, i, game) ==
    LET node == nodes[key]
        randomMove == unexpandedPlays(node)[i]
        childState == expandState(nodes, key, i, game)
        childNodeNew == MonteCarloNode(<<key>>, <<randomMove>>, childState, FALSE,
                                       legalMoves(childState))
        k == childIndex(node, randomMove)
        linked == [nodes EXCEPT ![key].children[k] =
                        [play |-> randomMove, node |-> <<hash(childState)>>]]
    IN  (hash(childState) :> childNodeNew) @@ linked

\* simulate: the winners the random playouts from state s can return
RECURSIVE simulate(_)
simulate(s) ==
    LET winner == checkWinWholeBoard(s)
        plays == legalMoves(s)
    IN  IF winner # "none" THEN {winner}
        ELSE UNION { simulate(doMoveApplied(s, plays[i])) : i \in 1..Len(plays) }

\* a backpropagate that counts the play only of a node it credits
backpropagateNodeCredited(nodes, key, winner, game) ==
    IF otherPlayer(stateOf(nodes[key], game).playerToMove) = winner
    THEN [nodes EXCEPT ![key].n_plays = @ + 1, ![key].n_wins = @ + 1]
    ELSE nodes

\* a backpropagate that counts either the win or the play
backpropagateNodeEitherOr(nodes, key, winner, game) ==
    IF otherPlayer(stateOf(nodes[key], game).playerToMove) = winner
    THEN [nodes EXCEPT ![key].n_wins = @ + 1]
    ELSE [nodes EXCEPT ![key].n_plays = @ + 1]

\* a backpropagate that counts every play twice
backpropagateNodeTwice(nodes, key, winner, game) ==
    [nodes EXCEPT
        ![key].n_plays = @ + 2,
        ![key].n_wins =
            IF otherPlayer(stateOf(nodes[key], game).playerToMove) = winner
            THEN @ + 1 ELSE @]

\* backpropagate: one turn of its loop, on the node under key
backpropagateNode(nodes, key, winner, game) ==
    [nodes EXCEPT
        ![key].n_plays = @ + 1,
        ![key].n_wins =
            IF otherPlayer(stateOf(nodes[key], game).playerToMove) = winner
            THEN @ + 1 ELSE @]

\* bestPlay, after its makeNode: the exception thrown ("none" when nothing
\* is thrown) and the play returned
bestPlay(nodes, game) ==
    LET node == nodes[hash(game)]
        n == Len(node.children)
        plays(i) == nodes[childNode(node, node.children[i].play)].n_plays
    IN  IF \E i \in 1..n : childNodeError(node, node.children[i].play) # "none"
        THEN [err |-> "ChildNotExpanded", play |-> <<>>]
        ELSE IF \A i \in 1..n : plays(i) = 0
        THEN [err |-> "NoBestPlay", play |-> <<>>]
        ELSE LET best == CHOOSE i \in 1..n :
                            /\ \A j \in 1..n : plays(j) <= plays(i)
                            /\ \A j \in 1..(i - 1) : plays(j) < plays(i)
             IN  [err |-> "none", play |-> <<node.children[best].play>>]

\* a getStats that leaves out the unexpanded children
getStatsExpandedOnly(nodes, game) ==
    IF hash(game) \notin DOMAIN nodes
    THEN [err |-> "TypeError", stats |-> <<>>]
    ELSE LET node == nodes[hash(game)]
             Expanded(child) == child.node # NoNode
             open == SelectSeq(node.children, Expanded)
         IN  [err |-> "none",
              stats |-> <<[n_plays |-> node.n_plays, n_wins |-> node.n_wins,
                           children |-> [i \in 1..Len(open) |->
                                [play |-> open[i].play,
                                 n_plays |-> <<nodes[open[i].node[1]].n_plays>>,
                                 n_wins |-> <<nodes[open[i].node[1]].n_wins>>]]]>>]

\* getStats: the exception thrown and the statistics returned
getStats(nodes, game) ==
    IF hash(game) \notin DOMAIN nodes
    THEN [err |-> "TypeError", stats |-> <<>>]
    ELSE LET node == nodes[hash(game)]
             entry(child) ==
                IF child.node = NoNode
                THEN [play |-> child.play, n_plays |-> <<>>, n_wins |-> <<>>]
                ELSE [play |-> child.play,
                      n_plays |-> <<nodes[child.node[1]].n_plays>>,
                      n_wins |-> <<nodes[child.node[1]].n_wins>>]
         IN  [err |-> "none",
              stats |-> <<[n_plays |-> node.n_plays, n_wins |-> node.n_wins,
                           children |-> [i \in 1..Len(node.children) |->
                                            entry(node.children[i])]]>>]

\* ------------------------------------------------------------------------
\* State
\* ------------------------------------------------------------------------

VARIABLES
    currentState,   \* Game.currentState
    onMoveCount,    \* number of calls of the hook Game.onMove so far
    onMoveSeen,     \* currentState as the last call of the hook found it
    op,             \* the last call made on the Game and how it ended
    pre,            \* currentState before the last call
    prevOp,         \* the call before the last one
    prePre,         \* currentState before the call before the last one
    line,           \* the recorded game the caller follows
    calls,          \* number of calls made after leaving the recorded game
    result,         \* what the last outcome query returned
    mirror,         \* what the same query returned for the players exchanged
    otherState,     \* currentState of a second Game
    keys,           \* the hash() strings the caller has taken
    nodes,          \* MonteCarlo.nodes
    pc,             \* where the engine is: "idle", or in runSearch at "loop"
                    \* (the test of the while loop) or in "backprop"
    elapsed,        \* runSearch: milliseconds from the reading of Date.now()
                    \* that set end to the latest reading
    deadline,       \* runSearch: end less the reading of Date.now() that set it
    currentNode,    \* backpropagate: its local variable currentNode
    winner,         \* runSearch: its local variable winner
    searches,       \* number of runSearch calls so far
    searched,       \* the last runSearch call: the hash() of its state, its
                    \* timeout, and its local variable i
    answer,         \* what the last bestPlay or getStats call returned
    cycle,          \* the latest turn of the loop of this runSearch call: nodes
                    \* as the turn found it, the node select returned, whether
                    \* expand was called, and the node passed to backpropagate
    workerGame,     \* currentState of the Game of the worker (mcts.worker.ts)
    toWorker,       \* messages posted to the worker and not yet handled by it
    toUI,           \* messages posted by the worker and not yet handled by the page
    clicks,         \* number of clicks on the board so far
    simState,       \* simulate: currentState of the Game that copy() created
    simulated       \* the latest simulate call: the currentState of the Game of
                    \* its node when it was called, the Game its local variable
                    \* state refers to, and the number of moves it has applied

\* the variables of the outcome queries
queryVars == <<result, mirror>>

\* the variables of the hook Game.onMove
hookVars == <<onMoveCount, onMoveSeen>>

\* the variables of the comparison of hash() strings
keyVars == <<otherState, keys>>

\* the variables of the search engine
searchVars == <<nodes, pc, elapsed, deadline, currentNode, winner, searches, searched, answer,
                cycle>>

\* the variables of the page and its worker
sessionVars == <<workerGame, toWorker, toUI, clicks>>

\* the variables of a call of simulate
simVars == <<simState, simulated>>

vars == <<currentState, hookVars, op, pre, prevOp, prePre, line, calls, queryVars, keyVars,
          searchVars, sessionVars, simVars>>

\* ------------------------------------------------------------------------
\* The callers of Game
\* ------------------------------------------------------------------------

\* Four recorded games, each given as the 0-based index, into legalMoves()
\* of the position reached so far, of the move played next: a game that X
\* wins on ply 27, a game that O wins on ply 28, a game drawn on ply 49
\* with one drawn subgrid, a game that O wins on ply 66 with the only legal
\* move of the position.
Lines ==
    [ X |-> <<77, 8, 3, 5, 3, 2, 8, 0, 6, 0, 0, 4, 2, 0, 0, 0, 1, 6, 2, 4, 2, 3, 3, 3,
              1, 3, 5>>,
      O |-> <<14, 2, 4, 8, 3, 7, 4, 5, 1, 2, 4, 1, 5, 0, 3, 6, 3, 5, 3, 3, 3, 2, 4, 6,
              3, 3, 4, 2>>,
      D |-> <<72, 2, 7, 2, 6, 6, 6, 5, 4, 4, 5, 0, 3, 0, 4, 1, 4, 5, 4, 2, 4, 2, 0, 2,
              5, 0, 7, 3, 35, 19, 1, 1, 6, 4, 8, 9, 20, 9, 0, 4, 4, 11, 5, 3, 2, 2, 2, 0,
              0>>,
      W |-> <<73, 2, 3, 4, 7, 8, 2, 5, 8, 3, 7, 4, 1, 4, 6, 4, 4, 3, 0, 6, 6, 6, 2, 5,
              4, 5, 1, 0, 0, 2, 2, 1, 0, 5, 2, 7, 2, 1, 4, 2, 2, 0, 1, 4, 2, 1, 3, 5,
              0, 0, 2, 17, 0, 0, 0, 0, 0, 2, 0, 0, 0, 2, 2, 0, 0, 0>> ]

\* the plies of each recorded game after which the caller may leave it
BranchPlies ==
    [ X |-> {0, 17, 25, 26, 27},
      O |-> {27, 28},
      D |-> {44, 46, 47, 48, 49},
      W |-> {66} ]

\* number of calls explored after leaving the recorded game: in legal play,
\* and by callers passing arbitrary Move records
MaxCalls == 3
MaxAnyCalls == 1

\* a mask has the bit of local cell (x, y), index = x + y * 3
Holds(mask, x, y) == (mask \div (2 ^ (x + y * 3))) % 2 = 1

\* the cell a move names is occupied in s
TargetOccupied(s, move) ==
    LET idx == (move.coordinate[1] \div 3) + (move.coordinate[2] \div 3) * 3
        x == move.coordinate[1] % 3
        y == move.coordinate[2] % 3
    IN  Holds(s.aSubgridBitboard[idx], x, y) \/ Holds(s.bSubgridBitboard[idx], x, y)

\* the cell a move names lies outside the forced subgrid of s
OutsideActive(s, move) ==
    /\ s.activeSubgrid # any
    /\ s.activeSubgrid # <<move.coordinate[1] \div 3, move.coordinate[2] \div 3>>

NoOp == [name |-> "new", err |-> "none", lifo |-> FALSE,
         occupied |-> FALSE, outside |-> FALSE]
NoResult == [subgrid |-> any, outcome |-> "unset"]
NoKeys == [own |-> "", other |-> "", before |-> "", before2 |-> ""]
NoAnswer == [call |-> "none", err |-> "none", play |-> <<>>, stats |-> <<>>]
NoSearch == [key |-> <<>>, timeout |-> 0, i |-> 0]
NoCycle == [before |-> <<>>, selected |-> <<>>, expanded |-> FALSE, node |-> <<>>]
NoState == <<>>
NoSimulated == [from |-> NoState, state |-> "none", moves |-> 0]

\* new MonteCarlo(game)
InitSearch ==
    /\ nodes = NoNodes
    /\ pc = "idle"
    /\ elapsed = 0
    /\ deadline = 0
    /\ currentNode = NoNode
    /\ winner = "none"
    /\ searches = 0
    /\ searched = NoSearch
    /\ answer = NoAnswer
    /\ cycle = NoCycle
    /\ simState = NoState
    /\ simulated = NoSimulated

\* the worker as its module leaves it when loaded, and nothing posted yet
InitSession ==
    /\ workerGame = initialGameState
    /\ toWorker = <<>>
    /\ toUI = <<>>
    /\ clicks = 0

\* new Game()
Init ==
    /\ currentState = initialGameState
    /\ onMoveCount = 0
    /\ onMoveSeen = currentState
    /\ op = NoOp
    /\ prevOp = NoOp
    /\ pre = currentState
    /\ prePre = currentState
    /\ line \in DOMAIN Lines
    /\ calls = 0
    /\ result = NoResult
    /\ mirror = "unset"
    /\ otherState = initialGameState
    /\ keys = NoKeys
    /\ InitSearch
    /\ InitSession

Last(seq) == seq[Len(seq)]

\* a move is the most recently applied one
IsLastMove(s, move) == Len(s.moves) > 0 /\ move = Last(s.moves)

\* game.doMove(move)
DoMove(move) ==
    /\ LET e == doMoveError(currentState, move)
       IN  /\ currentState' = IF e = "none" THEN doMoveApplied(currentState, move)
                              ELSE doMoveThrown(currentState, move)
           /\ onMoveCount' = IF e = "none" THEN onMoveCount + 1 ELSE onMoveCount
           /\ onMoveSeen' = IF e = "none" THEN onMoveState(currentState, move)
                            ELSE onMoveSeen
           /\ op' = [name |-> "doMove", err |-> e, lifo |-> FALSE,
                     occupied |-> TargetOccupied(currentState, move),
                     outside |-> OutsideActive(currentState, move)]
    /\ pre' = currentState
    /\ prevOp' = op
    /\ prePre' = pre
    /\ UNCHANGED <<line, queryVars>>

\* game.undoMove(move)
UndoMove(move) ==
    /\ currentState' = undoMove(currentState, move)
    /\ op' = [name |-> "undoMove", err |-> "none", lifo |-> IsLastMove(currentState, move),
              occupied |-> TargetOccupied(currentState, move),
              outside |-> OutsideActive(currentState, move)]
    /\ pre' = currentState
    /\ prevOp' = op
    /\ prePre' = pre
    /\ UNCHANGED <<hookVars, line, queryVars>>

\* the caller may make a call of its own choice
MayCall(bound) ==
    /\ calls < bound
    /\ calls = 0 => Len(currentState.moves) \in BranchPlies[line]

\* the caller plays the next move of its recorded game
PlayLine ==
    /\ calls = 0
    /\ Len(currentState.moves) < Len(Lines[line])
    /\ LET plays == legalMoves(currentState)
           k == Len(currentState.moves) + 1
       IN  /\ Len(plays) > 0
           /\ DoMove(plays[1 + (Lines[line][k] % Len(plays))])
    /\ UNCHANGED <<calls, keyVars, sessionVars>>

FollowLine == PlayLine /\ UNCHANGED <<searchVars, simVars>>

\* ------------------------------------------------------------------------
\* Legal play: doMove on moves taken from legalMoves(), undoMove of the most
\* recently applied move
\* ------------------------------------------------------------------------

PlayLegalMove ==
    /\ MayCall(MaxCalls)
    /\ LET plays == legalMoves(currentState)
       IN  \E i \in 1..Len(plays) : DoMove(plays[i])
    /\ calls' = calls + 1
    /\ UNCHANGED <<keyVars, searchVars, sessionVars, simVars>>

UndoLastMove ==
    /\ MayCall(MaxCalls)
    /\ Len(currentState.moves) > 0
    /\ UndoMove(Last(currentState.moves))
    /\ calls' = calls + 1
    /\ UNCHANGED <<keyVars, searchVars, sessionVars, simVars>>

Next == FollowLine \/ PlayLegalMove \/ UndoLastMove

Spec == Init /\ [][Next]_vars

\* ------------------------------------------------------------------------
\* Arbitrary callers: doMove and undoMove on any Move record
\* ------------------------------------------------------------------------

\* the Move records a caller passes: any cell, any player, and as
\* currentSubgrid the subgrid of the cell (as legalMovesSubgrid fills it in)
\* or the centre subgrid
MoveInputs ==
    { Move(c, p, <<1, 1>>) : c \in Coords, p \in Player }
    \cup { Move(c, p, <<c[1] \div 3, c[2] \div 3>>) : c \in Coords, p \in Player }

CallDoMove ==
    /\ MayCall(MaxAnyCalls)
    /\ \E move \in MoveInputs : DoMove(move)
    /\ calls' = calls + 1
    /\ UNCHANGED <<keyVars, searchVars, sessionVars, simVars>>

CallUndoMove ==
    /\ MayCall(MaxAnyCalls)
    /\ \E move \in MoveInputs : UndoMove(move)
    /\ calls' = calls + 1
    /\ UNCHANGED <<keyVars, searchVars, sessionVars, simVars>>

NextAny == FollowLine \/ CallDoMove \/ CallUndoMove

SpecAny == Init /\ [][NextAny]_vars

\* ------------------------------------------------------------------------
\* Outcome queries on a Game constructed on given bitboards
\* ------------------------------------------------------------------------

\* the subgrids the bitboards are loaded into, and the subgrids queried
MaskSubgrids == {<<0, 0>>, <<1, 2>>}
QueryInputs == {<<0, 0>>, <<1, 2>>, <<2, 1>>}

\* new Game(state), state holding a pair of disjoint masks in one subgrid
InitOutcome ==
    /\ \E a \in 0..FullMask, b \in 0..FullMask, subgrid \in MaskSubgrids :
          /\ \A x \in 0..2, y \in 0..2 : ~(Holds(a, x, y) /\ Holds(b, x, y))
          /\ currentState =
                [initialGameState EXCEPT
                    !.aSubgridBitboard[subgrid[1] + subgrid[2] * 3] = a,
                    !.bSubgridBitboard[subgrid[1] + subgrid[2] * 3] = b]
    /\ onMoveCount = 0
    /\ onMoveSeen = currentState
    /\ op = NoOp
    /\ prevOp = NoOp
    /\ pre = currentState
    /\ prePre = currentState
    /\ line = "X"
    /\ calls = 0
    /\ result = NoResult
    /\ mirror = "unset"
    /\ otherState = initialGameState
    /\ keys = NoKeys
    /\ InitSearch
    /\ InitSession

\* game.checkWinSubgrid(subgrid)
QuerySubgrid ==
    /\ \E subgrid \in QueryInputs :
          result' = [subgrid |-> subgrid, outcome |-> checkWinSubgrid(currentState, subgrid)]
    /\ mirror' = "unset"
    /\ UNCHANGED <<currentState, hookVars, op, pre, prevOp, prePre, line, calls, keyVars, searchVars,
                   sessionVars, simVars>>

\* the GameState with the bitboards of the two players exchanged
exchanged(s) ==
    [s EXCEPT !.aSubgridBitboard = s.bSubgridBitboard,
              !.bSubgridBitboard = s.aSubgridBitboard]

\* game.checkWinSubgrid(subgrid), and the same call on a Game constructed on
\* the exchanged bitboards
QueryExchanged ==
    /\ \E subgrid \in QueryInputs :
          /\ result' = [subgrid |-> subgrid,
                        outcome |-> checkWinSubgrid(currentState, subgrid)]
          /\ mirror' = checkWinSubgrid(exchanged(currentState), subgrid)
    /\ UNCHANGED <<currentState, hookVars, op, pre, prevOp, prePre, line, calls, keyVars, searchVars,
                   sessionVars, simVars>>

NextOutcome == QuerySubgrid \/ QueryExchanged

SpecOutcome == InitOutcome /\ [][NextOutcome]_vars

\* ------------------------------------------------------------------------
\* The search engine on the Game of its caller (src/src/mcts.worker.ts):
\* the game is moved by doMove, and searched from the late plies of the
\* recorded games
\* ------------------------------------------------------------------------

\* the plies of each recorded game from which the engine is called
SearchPlies ==
    [ X |-> {},
      O |-> {},
      D |-> {48},
      W |-> {63, 64, 65, 66} ]

\* the timeout arguments of runSearch, the milliseconds one turn of its
\* loop may take, the number of runSearch calls, and the number of moves
\* the caller plays off the recorded game
Timeouts == {0, 1}
CycleMillis == {500, 1000}
MaxSearches == 2
MaxSearchMoves == 1

\* the caller may call the engine
MaySearch ==
    /\ pc = "idle"
    /\ calls > 0 \/ Len(currentState.moves) \in SearchPlies[line]

gameVars == <<currentState, hookVars, op, pre, prevOp, prePre, line, calls, queryVars, keyVars,
              sessionVars, simVars>>

\* runSearch with timeout in milliseconds
searchEndMillis(timeout) == timeout \div 1000

\* runSearch: end, in milliseconds from the reading of Date.now() it adds to
searchEnd(timeout) == timeout * 1000

\* mcts.runSearch(game, timeout), up to the first test of its loop
RunSearch ==
    /\ MaySearch
    /\ searches < MaxSearches
    /\ nodes' = makeNode(nodes, currentState)
    /\ \E timeout \in Timeouts :
          /\ deadline' = searchEnd(timeout)
          /\ searched' = [key |-> <<hash(currentState)>>, timeout |-> timeout, i |-> 0]
    /\ elapsed' = 0
    /\ pc' = "loop"
    /\ searches' = searches + 1
    /\ answer' = NoAnswer
    /\ cycle' = NoCycle
    /\ UNCHANGED <<currentNode, winner, gameVars>>

\* runSearch: one turn of the loop up to the call of backpropagate
RunCycle ==
    /\ pc = "loop"
    /\ elapsed < deadline
    /\ selectError(nodes, currentState) = "none"
    /\ LET key == select(nodes, currentState)
           node == nodes[key]
           found == checkWinWholeBoard(stateOf(node, currentState))
       IN  IF ~isLeaf(node) /\ found = "none"
           THEN \E i \in 1..Len(unexpandedPlays(node)) :
                    LET childState == expandState(nodes, key, i, currentState)
                    IN  /\ nodes' = expand(nodes, key, i, currentState)
                        /\ currentNode' = <<hash(childState)>>
                        /\ winner' \in simulate(childState)
                        /\ cycle' = [before |-> nodes, selected |-> <<key>>,
                                     expanded |-> TRUE, node |-> currentNode']
           ELSE /\ nodes' = nodes
                /\ currentNode' = <<key>>
                /\ winner' = found
                /\ cycle' = [before |-> nodes, selected |-> <<key>>,
                             expanded |-> FALSE, node |-> currentNode']
    /\ pc' = "backprop"
    /\ UNCHANGED <<elapsed, deadline, searches, searched, answer, gameVars>>

\* backpropagate: one turn of its loop; after the last one the turn of the
\* loop of runSearch is over and Date.now() is read again
Backpropagate ==
    /\ pc = "backprop"
    /\ currentNode # NoNode
    /\ nodes' = backpropagateNode(nodes, currentNode[1], winner, currentState)
    /\ currentNode' = nodes[currentNode[1]].parent
    /\ IF currentNode' = NoNode
       THEN /\ pc' = "loop"
            /\ searched' = [searched EXCEPT !.i = @ + 1]
            /\ \E millis \in CycleMillis : elapsed' = elapsed + millis
       ELSE /\ pc' = "backprop"
            /\ UNCHANGED <<searched, elapsed>>
    /\ UNCHANGED <<deadline, winner, searches, answer, cycle, gameVars>>

\* runSearch: the test of the loop fails and runSearch returns
SearchReturns ==
    /\ pc = "loop"
    /\ elapsed >= deadline
    /\ pc' = "idle"
    /\ elapsed' = 0
    /\ deadline' = 0
    /\ UNCHANGED <<nodes, currentNode, winner, searches, searched, answer, cycle, gameVars>>

\* mcts.bestPlay(game)
BestPlay ==
    /\ MaySearch
    /\ nodes' = makeNode(nodes, currentState)
    /\ LET r == bestPlay(nodes', currentState)
       IN  answer' = [call |-> "bestPlay", err |-> r.err, play |-> r.play, stats |-> <<>>]
    /\ UNCHANGED <<pc, elapsed, deadline, currentNode, winner, searches, searched, cycle,
                   gameVars>>

\* mcts.getStats(game)
GetStats ==
    /\ MaySearch
    /\ LET r == getStats(nodes, currentState)
       IN  answer' = [call |-> "getStats", err |-> r.err, play |-> <<>>, stats |-> r.stats]
    /\ UNCHANGED <<nodes, pc, elapsed, deadline, currentNode, winner, searches, searched,
                   cycle, gameVars>>

\* mcts.nodes.clear()
ClearNodes ==
    /\ MaySearch
    /\ nodes # NoNodes
    /\ nodes' = NoNodes
    /\ searched' = NoSearch
    /\ answer' = NoAnswer
    /\ cycle' = NoCycle
    /\ UNCHANGED <<pc, elapsed, deadline, currentNode, winner, searches, gameVars>>

\* the engine is left alone, and the caller drops its last answer
EngineKept ==
    /\ answer' = NoAnswer
    /\ UNCHANGED <<nodes, pc, elapsed, deadline, currentNode, winner, searches, searched,
                   cycle, simVars>>

\* game.doMove(move) on a move of the recorded game
SearchFollowLine == pc = "idle" /\ PlayLine /\ EngineKept

\* game.doMove(move) on another legal move
SearchDoMove ==
    /\ MaySearch
    /\ calls < MaxSearchMoves
    /\ LET plays == legalMoves(currentState)
       IN  \E i \in 1..Len(plays) : DoMove(plays[i])
    /\ calls' = calls + 1
    /\ EngineKept
    /\ UNCHANGED <<keyVars, sessionVars>>

NextSearch ==
    \/ SearchFollowLine
    \/ SearchDoMove
    \/ RunSearch
    \/ RunCycle
    \/ Backpropagate
    \/ SearchReturns
    \/ BestPlay
    \/ GetStats
    \/ ClearNodes

SpecSearch == Init /\ [][NextSearch]_vars

\* ------------------------------------------------------------------------
\* hash() on two Games constructed on given move histories
\* ------------------------------------------------------------------------

\* the cells of the given histories, and the longest history given
KeyCells == {<<0, 0>>, <<4, 4>>, <<8, 8>>}
MaxKeyLen == 2

\* the Move records of the given histories: each cell for each player with
\* its own subgrid as currentSubgrid, the centre cell also with subgrid (0,0)
KeyMoves ==
    { Move(c, p, <<c[1] \div 3, c[2] \div 3>>) : c \in KeyCells, p \in Player }
    \cup { Move(<<4, 4>>, p, <<0, 0>>) : p \in Player }

\* the histories: no cell played twice
Histories ==
    { h \in UNION { [1..n -> KeyMoves] : n \in 0..MaxKeyLen } :
        \A i \in 1..Len(h), j \in 1..Len(h) :
            i # j => h[i].coordinate # h[j].coordinate }

\* the GameState with the first k moves of a history marked
RECURSIVE MarkedUpTo(_, _)
MarkedUpTo(history, k) ==
    IF k = 0 THEN initialGameState
    ELSE doMoveMarked(MarkedUpTo(history, k - 1), history[k])

\* the GameState passed to new Game(state): the history with its marks, the
\* player to move the opponent of the last mover, any subgrid active
GameOn(history) ==
    [MarkedUpTo(history, Len(history)) EXCEPT
        !.playerToMove = IF Len(history) = 0 THEN "X"
                         ELSE otherPlayer(Last(history).player)]

\* the hash() strings right after construction
KeysOf(s, t) == [own |-> hash(s), other |-> hash(t), before |-> hash(s), before2 |-> hash(s)]

InitKey ==
    /\ \E h1 \in Histories, h2 \in Histories :
          /\ currentState = GameOn(h1)
          /\ otherState = GameOn(h2)
    /\ keys = KeysOf(currentState, otherState)
    /\ onMoveCount = 0
    /\ onMoveSeen = currentState
    /\ op = NoOp
    /\ prevOp = NoOp
    /\ pre = currentState
    /\ prePre = currentState
    /\ line = "X"
    /\ calls = 0
    /\ result = NoResult
    /\ mirror = "unset"
    /\ InitSearch
    /\ InitSession

\* number of calls made on the first Game, and the cells the caller plays
MaxKeyCalls == 2
KeyPlayCells == {<<1, 0>>, <<7, 7>>}

\* the caller calls hash() on the first Game after each call it makes
KeysTaken ==
    keys' = [own |-> hash(currentState'), other |-> keys.other,
             before |-> keys.own, before2 |-> keys.before]

KeyDoMove ==
    /\ calls < MaxKeyCalls
    /\ \E c \in KeyPlayCells :
          DoMove(Move(c, currentState.playerToMove, <<c[1] \div 3, c[2] \div 3>>))
    /\ KeysTaken
    /\ calls' = calls + 1
    /\ UNCHANGED <<otherState, searchVars, sessionVars, simVars>>

KeyUndoMove ==
    /\ calls < MaxKeyCalls
    /\ Len(currentState.moves) > 0
    /\ UndoMove(Last(currentState.moves))
    /\ KeysTaken
    /\ calls' = calls + 1
    /\ UNCHANGED <<otherState, searchVars, sessionVars, simVars>>

NextKey == KeyDoMove \/ KeyUndoMove

SpecKey == InitKey /\ [][NextKey]_vars

\* ------------------------------------------------------------------------
\* The page and its worker: the page holds one Game, the worker another and
\* the search engine; they exchange messages through two queues. Each
\* handler runs to completion before the next event of its thread is taken.
\* ------------------------------------------------------------------------

\* the tiles the user clicks, and how many clicks the user makes
ClickCells == {<<4, 4>>, <<3, 3>>, <<0, 0>>, <<1, 1>>}
MaxClicks == 3

NoMove == <<>>

\* game.legalMoves().find((move) => move.coordinate[0] === x && move.coordinate[1] === y)
findMove(s, c) ==
    LET plays == legalMoves(s)
        hits == {i \in 1..Len(plays) : plays[i].coordinate[1] = c[1]
                                       /\ plays[i].coordinate[2] = c[2]}
    IN  IF hits = {} THEN NoMove
        ELSE <<plays[CHOOSE i \in hits : \A j \in hits : i <= j]>>

\* what the page's game.onMove posts to the worker, s being the state the
\* hook finds
onMovePosts(s, move) ==
    IF s.complete THEN <<>>
    ELSE IF s.playerToMove = "O"
         THEN << [type |-> "playerMove", move |-> <<move>>],
                 [type |-> "getAIMove", move |-> NoMove] >>
         ELSE <<>>

\* game.doMove(move) on the page's Game, with the hook the page installs
PageDoMove(move) ==
    /\ DoMove(move)
    /\ toWorker' = IF doMoveError(currentState, move) = "none"
                   THEN toWorker \o onMovePosts(onMoveState(currentState, move), move)
                   ELSE toWorker

\* the listener of 'click' on the board, for a click on a tile
Click ==
    /\ clicks < MaxClicks
    /\ clicks' = clicks + 1
    /\ \E c \in ClickCells :
          LET found == findMove(currentState, c)
          IN  IF found # NoMove
              THEN PageDoMove(found[1])
              ELSE UNCHANGED <<currentState, hookVars, op, pre, prevOp, prePre, line,
                               queryVars, toWorker>>
    /\ UNCHANGED <<calls, keyVars, searchVars, simVars, workerGame, toUI>>

\* mcts.runSearch(game, TIME_LIMIT) followed by mcts.bestPlay(game): the
\* plays it can return. The search expands the moves of the root in an
\* order drawn from Math.random() and credits them by random playouts, so
\* the most visited child can be the child of any legal move; with no legal
\* move bestPlay throws.
searchedBestPlays(s) == {legalMoves(s)[i] : i \in 1..Len(legalMoves(s))}

\* self.onmessage of the worker
WorkerOnMessage ==
    /\ Len(toWorker) > 0
    /\ toWorker' = Tail(toWorker)
    /\ LET data == Head(toWorker)
       IN  IF data.type = "playerMove"
           THEN /\ workerGame' =
                      IF doMoveError(workerGame, data.move[1]) = "none"
                      THEN doMoveApplied(workerGame, data.move[1])
                      ELSE doMoveThrown(workerGame, data.move[1])
                /\ toUI' = toUI
           ELSE IF searchedBestPlays(workerGame) = {}
                THEN UNCHANGED <<workerGame, toUI>>
                ELSE \E bestMove \in searchedBestPlays(workerGame) :
                        /\ workerGame' = doMoveApplied(workerGame, bestMove)
                        /\ toUI' = Append(toUI, [bestMove |-> bestMove])
    /\ UNCHANGED <<currentState, hookVars, op, pre, prevOp, prePre, line, calls,
                   queryVars, keyVars, searchVars, simVars, clicks>>

\* mctsWorker.onmessage of the page
PageOnMessage ==
    /\ Len(toUI) > 0
    /\ toUI' = Tail(toUI)
    /\ PageDoMove(Head(toUI).bestMove)
    /\ UNCHANGED <<calls, keyVars, searchVars, simVars, workerGame, clicks>>

InitPage == Init /\ line = "X"

NextSession == Click \/ WorkerOnMessage \/ PageOnMessage

SpecSession == InitPage /\ [][NextSession]_vars

\* ------------------------------------------------------------------------
\* simulate, one turn of its loop at a time: a node holds the Game that
\* follows a recorded game, and simulate is called on the node at the
\* positions of SimPlies
\* ------------------------------------------------------------------------

SimPlies ==
    [ X |-> {27},
      O |-> {28},
      D |-> {46, 47, 48, 49},
      W |-> {59, 60, 61, 62, 63, 64, 65, 66} ]

\* a copy() that returns the Game it is called on
copySame(game) == game

\* Game.copy(): the Game it returns, "node" being the Game it is called on
\* and "fresh" a Game created by the call
copy(game) == "fresh"

\* state.currentState in simulate
simCurrentState == IF simulated.state = "node" THEN currentState ELSE simState

\* simulate(node), up to the first test of its loop
SimulateCall ==
    /\ pc = "idle"
    /\ Len(currentState.moves) \in SimPlies[line]
    /\ simulated' = [from |-> currentState, state |-> copy("node"), moves |-> 0]
    /\ simState' = IF copy("node") = "fresh" THEN currentState ELSE NoState
    /\ winner' = checkWinWholeBoard(currentState)
    /\ pc' = "simulate"
    /\ answer' = NoAnswer
    /\ UNCHANGED <<nodes, elapsed, deadline, currentNode, searches, searched, cycle>>
    /\ UNCHANGED <<currentState, hookVars, op, pre, prevOp, prePre, line, calls, queryVars,
                   keyVars, sessionVars>>

\* simulate: one turn of its loop. plays[Math.floor(Math.random() * 0)] is
\* undefined, on which doMove throws a TypeError.
SimulateStep ==
    /\ pc = "simulate"
    /\ winner = "none"
    /\ LET plays == legalMoves(simCurrentState)
       IN  IF Len(plays) = 0
           THEN /\ answer' = [call |-> "simulate", err |-> "TypeError", play |-> <<>>,
                              stats |-> <<>>]
                /\ pc' = "idle"
                /\ UNCHANGED <<currentState, simVars, winner>>
           ELSE \E i \in 1..Len(plays) :
                    LET e == doMoveError(simCurrentState, plays[i])
                        after == IF e = "none" THEN doMoveApplied(simCurrentState, plays[i])
                                 ELSE doMoveThrown(simCurrentState, plays[i])
                    IN  /\ IF simulated.state = "node"
                           THEN currentState' = after /\ simState' = simState
                           ELSE simState' = after /\ currentState' = currentState
                        /\ IF e = "none"
                           THEN /\ winner' = checkWinWholeBoard(after)
                                /\ simulated' = [simulated EXCEPT !.moves = @ + 1]
                                /\ UNCHANGED <<pc, answer>>
                           ELSE /\ answer' = [call |-> "simulate", err |-> e, play |-> <<>>,
                                              stats |-> <<>>]
                                /\ pc' = "idle"
                                /\ UNCHANGED <<winner, simulated>>
    /\ UNCHANGED <<nodes, elapsed, deadline, currentNode, searches, searched, cycle>>
    /\ UNCHANGED <<hookVars, op, pre, prevOp, prePre, line, calls, queryVars, keyVars,
                   sessionVars>>

\* simulate: the test of its loop fails and it returns winner
SimulateReturns ==
    /\ pc = "simulate"
    /\ winner # "none"
    /\ pc' = "idle"
    /\ answer' = [call |-> "simulate", err |-> "none", play |-> <<>>, stats |-> <<>>]
    /\ simState' = NoState
    /\ UNCHANGED <<nodes, elapsed, deadline, currentNode, winner, searches, searched, cycle,
                   simulated>>
    /\ UNCHANGED <<currentState, hookVars, op, pre, prevOp, prePre, line, calls, queryVars,
                   keyVars, sessionVars>>

\* the Game of the node is played on, outside of simulate
SimulateFollowLine ==
    /\ pc = "idle"
    /\ PlayLine
    /\ answer' = NoAnswer
    /\ simulated' = NoSimulated
    /\ UNCHANGED <<nodes, pc, elapsed, deadline, currentNode, winner, searches, searched,
                   cycle, simState>>

NextSimulate == SimulateFollowLine \/ SimulateCall \/ SimulateStep \/ SimulateReturns

SpecSimulate == Init /\ [][NextSimulate]_vars

\* ------------------------------------------------------------------------
\* Properties
\* ------------------------------------------------------------------------

\* the last call was a doMove that was accepted / that threw
Applied == op.name = "doMove" /\ op.err = "none"
Rejected == op.name = "doMove" /\ op.err # "none"

\* the last call undid the most recently applied move, and the call before
\* it was the doMove that applied that move
UndoneAtOnce == op.name = "undoMove" /\ op.lifo /\ prevOp.name = "doMove" /\ prevOp.err = "none"

\* C1: doMove(m) on a move from legalMoves() immediately followed by
\* undoMove(m) leaves the bitboards, activeSubgrid, playerToMove, complete
\* and the move history as they were before doMove(m).
C1_ApplyUndoRestores == UndoneAtOnce => currentState = prePre

\* C2: in legal play with LIFO undos, legalMoves() is empty if and only if
\* complete is true.
C2_NoMovesIffComplete == (Len(legalMoves(currentState)) = 0) <=> currentState.complete

\* the game has just been decided by a move, and no move is left
C2_Witness == Applied /\ currentState.complete /\ Len(legalMoves(currentState)) = 0

\* C3: doMove on an occupied cell, or outside a forced activeSubgrid, throws
\* and leaves the whole GameState as it was.
C3_RejectedMoveChangesNothing ==
    (op.name = "doMove" /\ (op.occupied \/ op.outside)) =>
        (op.err # "none" /\ currentState = pre)

\* a doMove outside the forced subgrid of a game in progress was rejected
C3_Witness == Rejected /\ op.outside /\ ~op.occupied /\ Len(currentState.moves) > 0

\* C4: after an accepted doMove at (gx, gy), activeSubgrid is the subgrid
\* (gx mod 3, gy mod 3) if the outcome of that subgrid, evaluated with the
\* cell marked, is in-progress, and "any" otherwise.
C4_ActiveSubgridAfterMove ==
    Applied =>
        LET c == Last(currentState.moves).coordinate
            target == <<c[1] % 3, c[2] % 3>>
        IN  currentState.activeSubgrid =
                IF checkWinSubgrid(currentState, target) = "none" THEN target ELSE any

\* (4,4) played on the empty board: activeSubgrid is the centre subgrid
C4_Witness ==
    /\ Applied
    /\ Len(currentState.moves) = 1
    /\ Last(currentState.moves).coordinate = <<4, 4>>
    /\ currentState.activeSubgrid = <<1, 1>>

\* C5: undoMove on an empty move history, or of a move that is not the most
\* recently applied one, fails with IllegalUndo and changes nothing.
C5_IllegalUndoRejected ==
    (op.name = "undoMove" /\ ~op.lifo) => (op.err = "IllegalUndo" /\ currentState = pre)

\* C6: in legal play with LIFO undos, activeSubgrid is "any" or names a
\* subgrid whose outcome is in-progress.
C6_ActiveSubgridInProgress ==
    \/ currentState.activeSubgrid = any
    \/ checkWinSubgrid(currentState, currentState.activeSubgrid) = "none"

\* a move sent the opponent to a decided subgrid: activeSubgrid is "any"
C6_Witness ==
    /\ Applied
    /\ currentState.activeSubgrid = any
    /\ LET c == Last(currentState.moves).coordinate
       IN  checkWinSubgrid(currentState, <<c[1] % 3, c[2] % 3>>) # "none"

\* C7: in legal play with LIFO undos, complete is true if and only if
\* checkWinWholeBoard() is not in-progress.
C7_CompleteIffDecided ==
    currentState.complete <=> (checkWinWholeBoard(currentState) # "none")

\* the move that decided the game has been undone
C7_Witness == op.name = "undoMove" /\ op.lifo /\ pre.complete /\ ~currentState.complete

\* C8: no cell has both players' bits set.
C8_NoOverlap ==
    \A idx \in 0..8, x \in 0..2, y \in 0..2 :
        ~(Holds(currentState.aSubgridBitboard[idx], x, y)
          /\ Holds(currentState.bSubgridBitboard[idx], x, y))

\* a doMove on an occupied cell has been rejected
C8_Witness == Rejected /\ op.occupied /\ op.err = "TileTaken"

\* C9: after every accepted doMove, playerToMove is the opponent of the
\* playerToMove before the call, whatever player the move names.
C9_PlayerAlternates ==
    Applied => currentState.playerToMove = otherPlayer(pre.playerToMove)

\* the eight lines of a 3x3 grid, as sets of local cells
GridLines ==
    { {<<0, y>>, <<1, y>>, <<2, y>>} : y \in 0..2 }
    \cup { {<<x, 0>>, <<x, 1>>, <<x, 2>>} : x \in 0..2 }
    \cup { {<<0, 0>>, <<1, 1>>, <<2, 2>>}, {<<2, 0>>, <<1, 1>>, <<0, 2>>} }

HasLine(mask) == \E l \in GridLines : \A c \in l : Holds(mask, c[1], c[2])

AllOccupied(a, b) == \A x \in 0..2, y \in 0..2 : Holds(a, x, y) \/ Holds(b, x, y)

\* the masks of the subgrid the last query was about
QueriedA == currentState.aSubgridBitboard[result.subgrid[1] + result.subgrid[2] * 3]
QueriedB == currentState.bSubgridBitboard[result.subgrid[1] + result.subgrid[2] * 3]

\* C10 as stated: on disjoint masks, checkWinSubgrid returns player P exactly
\* when P's mask contains one of the eight lines, draw when no mask has a
\* line and all nine cells are occupied, and in-progress otherwise.
C10_OutcomeByLines ==
    result.outcome # "unset" =>
        /\ result.outcome = "X" <=> HasLine(QueriedA)
        /\ result.outcome = "O" <=> HasLine(QueriedB)
        /\ result.outcome = "draw" <=>
              (~HasLine(QueriedA) /\ ~HasLine(QueriedB) /\ AllOccupied(QueriedA, QueriedB))

\* C10 amended: on disjoint masks, checkWinSubgrid returns X exactly when X's
\* mask contains one of the eight lines, O exactly when O's mask contains one
\* and X's mask contains none, draw when no mask has a line and all nine cells
\* are occupied, and in-progress otherwise.
C10_OutcomeByLinesXFirst ==
    result.outcome # "unset" =>
        result.outcome =
            IF HasLine(QueriedA) THEN "X"
            ELSE IF HasLine(QueriedB) THEN "O"
            ELSE IF AllOccupied(QueriedA, QueriedB) THEN "draw"
            ELSE "none"

\* X holds the local cells (0,0), (1,0), (2,0) of subgrid (0,0): won by X
C10_Witness ==
    /\ result.subgrid = <<0, 0>>
    /\ QueriedA = 7
    /\ result.outcome = "X"

\* the outcome with the labels X and O exchanged
relabelled(outcome) ==
    IF outcome = "X" THEN "O" ELSE IF outcome = "O" THEN "X" ELSE outcome

\* C11 as stated: for every pair of disjoint masks (a, b), checkWinSubgrid on
\* (b, a) is checkWinSubgrid on (a, b) with the labels X and O exchanged,
\* pairs in which both masks contain a line included.
C11_ExchangeSymmetry ==
    mirror # "unset" => mirror = relabelled(result.outcome)

\* C11 amended: for every pair of disjoint masks (a, b) that do not both
\* contain a line, checkWinSubgrid on (b, a) is checkWinSubgrid on (a, b)
\* with the labels X and O exchanged; when both masks contain a line, both
\* calls return X.
C11_ExchangeSymmetryOneLine ==
    mirror # "unset" =>
        IF HasLine(QueriedA) /\ HasLine(QueriedB)
        THEN mirror = "X" /\ result.outcome = "X"
        ELSE mirror = relabelled(result.outcome)

\* O holds the local cells (0,0), (1,1), (2,2) of subgrid (1,2) and X holds
\* no line: won by O, and won by X once the bitboards are exchanged
C11_Witness ==
    /\ result.subgrid = <<1, 2>>
    /\ QueriedB = 273
    /\ ~HasLine(QueriedA)
    /\ result.outcome = "O"
    /\ mirror = "X"

\* the subgrids won by a player contain a line of the 3x3 meta-board
MetaLine(s, player) ==
    \E l \in GridLines : \A c \in l : checkWinSubgrid(s, c) = player

\* no subgrid is in progress
AllSubgridsDecided(s) ==
    \A x \in 0..2, y \in 0..2 : checkWinSubgrid(s, <<x, y>>) # "none"

\* some subgrid is drawn
SomeSubgridDrawn(s) ==
    \E x \in 0..2, y \in 0..2 : checkWinSubgrid(s, <<x, y>>) = "draw"

\* C12: checkWinWholeBoard() returns player P exactly when the subgrids won
\* by P contain a line of the meta-board (drawn subgrids count for neither
\* player), draw when no player has such a line and no subgrid is in
\* progress, and in-progress otherwise.
C12_BoardOutcomeByMetaLines ==
    LET r == checkWinWholeBoard(currentState)
    IN  /\ r = "X" <=> MetaLine(currentState, "X")
        /\ r = "O" <=> MetaLine(currentState, "O")
        /\ r = "draw" <=>
              /\ ~MetaLine(currentState, "X")
              /\ ~MetaLine(currentState, "O")
              /\ AllSubgridsDecided(currentState)

\* the last move drew the game on a board with a drawn subgrid
C12_Witness ==
    /\ Applied
    /\ currentState.complete
    /\ checkWinWholeBoard(currentState) = "draw"
    /\ SomeSubgridDrawn(currentState)

\* the subgrid that contains the cell of the most recently applied move
MovedSubgrid(s) ==
    LET c == Last(s.moves).coordinate
    IN  <<c[1] \div 3, c[2] \div 3>>

\* C13: an accepted doMove leaves the outcome of each of the eight subgrids
\* that do not contain the cell of the move as it was before the call.
C13_OtherSubgridsKeepOutcome ==
    Applied =>
        \A x \in 0..2, y \in 0..2 :
            <<x, y>> # MovedSubgrid(currentState) =>
                checkWinSubgrid(currentState, <<x, y>>) = checkWinSubgrid(pre, <<x, y>>)

\* an accepted doMove has decided the subgrid of its cell
C13_Witness ==
    /\ Applied
    /\ checkWinSubgrid(pre, MovedSubgrid(currentState)) = "none"
    /\ checkWinSubgrid(currentState, MovedSubgrid(currentState)) # "none"

\* C14: the hook onMove is called exactly once by each doMove that is
\* accepted, in the fully updated state, and is not called by a doMove that
\* throws.
C14_HookOncePerAppliedMove ==
    [][IF op'.name = "doMove" /\ op'.err = "none"
       THEN onMoveCount' = onMoveCount + 1 /\ onMoveSeen' = currentState'
       ELSE UNCHANGED hookVars]_vars

\* a doMove was rejected after the hook had run for earlier moves
C14_Witness ==
    /\ Rejected
    /\ onMoveCount > 0
    /\ onMoveCount = Len(currentState.moves)
    /\ onMoveSeen = currentState

\* two histories hold the same (coordinate, player) pairs in the same order
SameHistory(h1, h2) ==
    /\ Len(h1) = Len(h2)
    /\ \A i \in 1..Len(h1) :
          h1[i].coordinate = h2[i].coordinate /\ h1[i].player = h2[i].player

\* C20: two Games have the same hash() if and only if their histories hold
\* the same (coordinate, player) pairs in the same order, and doMove followed
\* at once by undoMove of the same move restores the hash().
C20_KeyIsHistory ==
    /\ keys.own = keys.other <=> SameHistory(currentState.moves, otherState.moves)
    /\ UndoneAtOnce => keys.own = keys.before2

\* a move was applied and undone on a Game that has the cells of the other
\* Game, played in the opposite order: the keys differ
C20_Witness ==
    /\ UndoneAtOnce
    /\ Len(currentState.moves) = 2
    /\ currentState.aSubgridBitboard = otherState.aSubgridBitboard
    /\ currentState.bSubgridBitboard = otherState.bSubgridBitboard
    /\ currentState.moves[1].coordinate = otherState.moves[2].coordinate
    /\ keys.own # keys.other
    /\ keys.own = keys.before2

\* the keys of the expanded children of a node
ExpandedChildren(node) ==
    { node.children[i].node[1] : i \in { j \in 1..Len(node.children) :
                                            node.children[j].node # NoNode } }

\* no runSearch call is running, and one has returned
SearchCompleted == pc = "idle" /\ searches > 0

\* C15 as stated: after any completed runSearch call, every node with at
\* least one expanded child has n_plays at least 1 + the n_plays of
\* its most-visited child.
C15_ParentAboveChild ==
    SearchCompleted =>
        \A key \in DOMAIN nodes :
            \A child \in ExpandedChildren(nodes[key]) :
                nodes[key].n_plays >= 1 + nodes[child].n_plays

\* C15 amended: after any completed runSearch call, every node created by
\* expand that has an expanded child has n_plays at least 1 + the n_plays of
\* its most-visited child, and every node created by makeNode (a node
\* without parent) has n_plays at least the n_plays of its most-visited
\* child.
C15_ParentAboveChildButRoot ==
    SearchCompleted =>
        \A key \in DOMAIN nodes :
            \A child \in ExpandedChildren(nodes[key]) :
                nodes[key].n_plays >=
                    (IF nodes[key].parent = NoNode THEN 0 ELSE 1) + nodes[child].n_plays

\* a search has returned with a root as often played as its only expanded
\* child, and a child of the root played once more than its own child
C15_Witness ==
    /\ SearchCompleted
    /\ \E key \in DOMAIN nodes :
          /\ nodes[key].parent = NoNode
          /\ \E child \in ExpandedChildren(nodes[key]) :
                /\ nodes[key].n_plays = nodes[child].n_plays
                /\ \E grandchild \in ExpandedChildren(nodes[child]) :
                      nodes[child].n_plays = 1 + nodes[grandchild].n_plays

\* C16: at every point of every search, every node has
\* 0 <= n_wins <= n_plays.
C16_WinsWithinPlays ==
    \A key \in DOMAIN nodes :
        0 <= nodes[key].n_wins /\ nodes[key].n_wins <= nodes[key].n_plays

\* in the second search on the same engine, backpropagate stands between a
\* node with as many wins as plays and its parent, played but without a win
C16_Witness ==
    /\ pc = "backprop"
    /\ searches = 2
    /\ currentNode # NoNode
    /\ \E key \in DOMAIN nodes :
          /\ nodes[key].parent = currentNode
          /\ nodes[key].n_plays >= 1
          /\ nodes[key].n_wins = nodes[key].n_plays
          /\ nodes[currentNode[1]].n_plays >= 1
          /\ nodes[currentNode[1]].n_wins = 0

\* the node registered for the Game of the caller
RootNode == nodes[hash(currentState)]

\* C17: bestPlay returns, whenever the root has at least one expanded child,
\* the play of an expanded child whose n_plays is maximal among the expanded
\* children, and throws only when no child of the root is expanded.
C17_BestPlayAmongExpanded ==
    answer.call = "bestPlay" =>
        /\ ExpandedChildren(RootNode) # {} =>
              /\ answer.err = "none"
              /\ \E child \in ExpandedChildren(RootNode) :
                    /\ answer.play = nodes[child].play
                    /\ \A other \in ExpandedChildren(RootNode) :
                          nodes[other].n_plays <= nodes[child].n_plays
        /\ answer.err # "none" => ExpandedChildren(RootNode) = {}

\* the Game has exactly one legal move, and that move wins the game for the
\* player to move
OneWinningMove(s) ==
    /\ Len(legalMoves(s)) = 1
    /\ checkWinWholeBoard(doMoveApplied(s, legalMoves(s)[1])) = s.playerToMove

\* the last runSearch call was made on the Game as it is now, with a
\* positive timeout, and has returned
SearchedHere ==
    /\ pc = "idle"
    /\ searched.key = <<hash(currentState)>>
    /\ searched.timeout > 0

C19_StatsPerLegalMove ==
    answer.call = "getStats" =>
        IF hash(currentState) \in DOMAIN nodes
        THEN /\ answer.err = "none"
             /\ LET stats == answer.stats[1]
                    plays == legalMoves(currentState)
                IN  /\ stats.n_plays = RootNode.n_plays
                    /\ stats.n_wins = RootNode.n_wins
                    /\ Len(stats.children) = Len(plays)
                    /\ \A i \in 1..Len(plays) :
                          LET child == RootNode.children[i].node
                          IN  /\ stats.children[i].play = plays[i]
                              /\ stats.children[i].n_plays =
                                    IF child = NoNode THEN <<>>
                                    ELSE <<nodes[child[1]].n_plays>>
                              /\ stats.children[i].n_wins =
                                    IF child = NoNode THEN <<>>
                                    ELSE <<nodes[child[1]].n_wins>>
        ELSE answer.err # "none" /\ answer.stats = <<>>

\* getStats has returned an entry with counts and an entry with null counts
C19_Witness ==
    /\ answer.call = "getStats"
    /\ answer.err = "none"
    /\ \E i, j \in 1..Len(answer.stats[1].children) :
          /\ answer.stats[1].children[i].n_plays = <<>>
          /\ answer.stats[1].children[j].n_plays # <<>>
          /\ answer.stats[1].children[j].n_plays[1] >= 1


\* C21: every Move returned by legalMoves() carries in currentSubgrid the
\* activeSubgrid of the state that produced it (the value 'any' included)
\* and carries that state's playerToMove as its player.
C21_MovesCarryActiveSubgrid ==
    \A k \in 1..Len(legalMoves(currentState)) :
        LET move == legalMoves(currentState)[k]
        IN  /\ move.currentSubgrid = currentState.activeSubgrid
            /\ move.player = currentState.playerToMove

\* the getAIMove requests the worker has not handled yet
RequestsWaiting == {i \in 1..Len(toWorker) : toWorker[i].type = "getAIMove"}

\* C22: between the page and its worker at most one request is in flight:
\* the page posts no getAIMove request while an earlier one is unanswered.
C22_OneRequestInFlight == Cardinality(RequestsWaiting) <= 1

\* C23: runSearch(state, timeBudgetMillis) starts a cycle only while less
\* than timeBudgetMillis milliseconds have elapsed since the call began: the
\* argument it is given and the budget it enforces are the same duration.
C23_CycleWithinBudget == pc = "backprop" => elapsed < searched.timeout

\* C24: backpropagation increments the wins of a visited node if and only
\* if the outcome is the player who made the move into the node, that is
\* the opponent of the playerToMove of the state the node was created for;
\* a drawn outcome increments no wins.
C24_WinsCreditTheMover ==
    [][pc = "backprop" =>
          LET key == currentNode[1]
          IN  nodes'[key].n_wins =
                  nodes[key].n_wins
                  + (IF winner = otherPlayer(nodes[key].state.playerToMove) THEN 1 ELSE 0)]_vars

\* the nodes met from a node by following the parent links, the node included
RECURSIVE PathUp(_, _)
PathUp(ns, ref) ==
    IF ref = NoNode THEN {} ELSE {ref[1]} \cup PathUp(ns, ns[ref[1]].parent)

\* a turn of the loop of runSearch has just been completed
CycleCompleted == pc = "loop" /\ cycle # NoCycle

\* n_plays and n_wins of a node when the latest turn began (a node the turn
\* created has none)
PlaysBefore(key) == IF key \in DOMAIN cycle.before THEN cycle.before[key].n_plays ELSE 0
WinsBefore(key) == IF key \in DOMAIN cycle.before THEN cycle.before[key].n_wins ELSE 0

\* C25: a search cycle adds exactly one to n_plays of the node produced by
\* expand (or of the selected node when expand is not called) and of every
\* node reached from it through parent links, and leaves n_plays and n_wins
\* of every other node as they were.
C25_CycleVisitsPathOnly ==
    CycleCompleted =>
        \A key \in DOMAIN nodes :
            IF key \in PathUp(nodes, cycle.node)
            THEN nodes[key].n_plays = PlaysBefore(key) + 1
            ELSE /\ nodes[key].n_plays = PlaysBefore(key)
                 /\ nodes[key].n_wins = WinsBefore(key)

\* a cycle that expanded a node two parent links below a parentless node,
\* in a tree holding a played node off the path
C25_Witness ==
    /\ CycleCompleted
    /\ cycle.expanded
    /\ Cardinality(PathUp(nodes, cycle.node)) >= 3
    /\ \E key \in DOMAIN nodes \ PathUp(nodes, cycle.node) : nodes[key].n_plays > 0

\* the child under key is the first, in the order of the plays of its
\* parent, of the children of maximal UCB1
IsFirstMaxChild(ns, parent, key) ==
    \E i \in 1..Len(ns[parent].children) :
        /\ ns[parent].children[i].node = <<key>>
        /\ \A j \in 1..Len(ns[parent].children) :
              childUCB1(ns, ns[parent], j) <= childUCB1(ns, ns[parent], i)
        /\ \A j \in 1..(i - 1) :
              childUCB1(ns, ns[parent], j) < childUCB1(ns, ns[parent], i)

\* the node under key is reached from the node under start by descending,
\* through fully expanded nodes that have plays, to first children of
\* maximal UCB1
RECURSIVE Descended(_, _, _)
Descended(ns, start, key) ==
    \/ key = start
    \/ /\ ns[key].parent # NoNode
       /\ LET parent == ns[key].parent[1]
          IN  /\ isFullyExpanded(ns[parent])
              /\ ~isLeaf(ns[parent])
              /\ IsFirstMaxChild(ns, parent, key)
              /\ Descended(ns, start, parent)

\* C26: select starts at the node registered for the searched state,
\* descends only through fully expanded nodes that have legal moves, each
\* time to the first child of maximal UCB1, and returns the first node on
\* that path that has an unexpanded move or no legal move.
C26_SelectDescendsByUCB1 ==
    cycle # NoCycle =>
        /\ Descended(cycle.before, searched.key[1], cycle.selected[1])
        /\ LET node == cycle.before[cycle.selected[1]]
           IN  ~isFullyExpanded(node) \/ isLeaf(node)

\* select descended from a node whose children tie for the maximal UCB1
C26_Witness ==
    /\ cycle # NoCycle
    /\ cycle.selected # searched.key
    /\ LET start == cycle.before[searched.key[1]]
       IN  /\ Len(start.children) >= 2
           /\ \A i, j \in 1..Len(start.children) :
                 childUCB1(cycle.before, start, i) = childUCB1(cycle.before, start, j)

\* expand has just returned, and backpropagate has not begun
JustExpanded == pc = "backprop" /\ currentNode = cycle.node /\ cycle.expanded

\* C27: expand is called only on a node that has an unexpanded play and
\* whose state is not terminal; it turns exactly one unexpanded play of the
\* node into a child whose state is the state of the node with that play
\* applied and whose children are the legal moves of that state, all
\* unexpanded; the child is registered under the hash() of its state, and
\* the state of the node is left as it was.
C27_ExpandOneChild ==
    JustExpanded =>
        LET parentKey == cycle.selected[1]
            childKey == cycle.node[1]
            before == cycle.before[parentKey]
            after == nodes[parentKey]
            child == nodes[childKey]
        IN  /\ ~isFullyExpanded(before)
            /\ checkWinWholeBoard(stateOf(before, currentState)) = "none"
            /\ \E i \in 1..Len(before.children) :
                  /\ before.children[i].node = NoNode
                  /\ after.children = [before.children EXCEPT ![i].node = <<childKey>>]
                  /\ doMoveError(stateOf(before, currentState), before.children[i].play) = "none"
                  /\ child.state = doMoveApplied(stateOf(before, currentState),
                                                 before.children[i].play)
                  /\ child.play = <<before.children[i].play>>
            /\ child.parent = <<parentKey>>
            /\ ~child.shared
            /\ allPlays(child) = legalMoves(child.state)
            /\ \A i \in 1..Len(child.children) : child.children[i].node = NoNode
            /\ childKey = hash(child.state)
            /\ after.state = before.state
            /\ stateOf(after, currentState) = stateOf(before, currentState)
            /\ \A key \in DOMAIN cycle.before \ {parentKey} : nodes[key] = cycle.before[key]

\* expand on a node that has another child expanded already, giving a child
\* that has plays of its own
C27_Witness ==
    /\ JustExpanded
    /\ \E i \in 1..Len(cycle.before[cycle.selected[1]].children) :
          cycle.before[cycle.selected[1]].children[i].node # NoNode
    /\ Len(nodes[cycle.node[1]].children) >= 2

\* the number of occupied cells of a state
Occupied(s) ==
    Cardinality({c \in Coords : getTile(s, c) # null})

\* C28: simulate always terminates: wherever the outcome is 'none' there is
\* a legal move, every move it applies is accepted, an outcome other than
\* 'none' is reached after at most 81 less the number of occupied cells
\* moves, and the state of the node is afterwards as it was.
C28_SimulateTerminates ==
    simulated # NoSimulated =>
        /\ answer.err = "none"
        /\ (pc = "simulate" /\ winner = "none") =>
              /\ Len(legalMoves(simCurrentState)) > 0
              /\ \A i \in 1..Len(legalMoves(simCurrentState)) :
                    doMoveError(simCurrentState, legalMoves(simCurrentState)[i]) = "none"
        /\ simulated.moves <= 81 - Occupied(simulated.from)
        /\ answer.call = "simulate" =>
              /\ winner \in {"X", "O", "draw"}
              /\ winner \in simulate(simulated.from)
        /\ currentState = simulated.from

\* simulate has returned a draw after at least three moves
C28_Witness ==
    /\ answer.call = "simulate"
    /\ answer.err = "none"
    /\ simulated.moves >= 3
    /\ winner = "draw"

\* C29: runSearch(state) creates a node for state only when none is
\* registered under the hash() of state, and creates it without parent,
\* with n_plays = 0 and n_wins = 0 and with exactly the legal moves of state
\* as children, none expanded; a node registered already is kept with its
\* statistics and children, and no other node is changed.
C29_RootMadeOnce ==
    [][searches' = searches + 1 =>
          LET key == hash(currentState)
          IN  IF key \in DOMAIN nodes
              THEN nodes' = nodes
              ELSE /\ DOMAIN nodes' = DOMAIN nodes \cup {key}
                   /\ \A other \in DOMAIN nodes : nodes'[other] = nodes[other]
                   /\ nodes'[key].parent = NoNode
                   /\ nodes'[key].n_plays = 0
                   /\ nodes'[key].n_wins = 0
                   /\ allPlays(nodes'[key]) = legalMoves(currentState)
                   /\ \A i \in 1..Len(nodes'[key].children) :
                         nodes'[key].children[i].node = NoNode]_vars

\* a second runSearch call has just found a node that has been played and
\* has an expanded child
C29_Witness ==
    /\ pc = "loop"
    /\ searches = 2
    /\ cycle = NoCycle
    /\ searched.key # <<>>
    /\ nodes[searched.key[1]].n_plays > 0
    /\ \E i \in 1..Len(nodes[searched.key[1]].children) :
          nodes[searched.key[1]].children[i].node # NoNode

\* C30: every node owns a snapshot of the GameState: moves applied to the
\* caller's Game after runSearch or bestPlay change the state of no node,
\* so the state of the node registered under a key has that key as its
\* hash() and has the keys of the node's children as its legal moves.
C30_NodesOwnSnapshots ==
    \A key \in DOMAIN nodes :
        LET node == nodes[key]
            state == stateOf(node, currentState)
        IN  /\ hash(state) = key
            /\ {moveHash(legalMoves(state)[i]) : i \in 1..Len(legalMoves(state))}
                   = {moveHash(node.children[i].play) : i \in 1..Len(node.children)}

\* C31: doMove succeeds only on a move that legalMoves() of the state before
\* the call returns; a move made when complete is true, a move into a
\* decided subgrid while activeSubgrid is 'any', and a move of the player
\* who is not to move are rejected.
C31_AcceptedMovesAreLegal ==
    Applied =>
        \E i \in 1..Len(legalMoves(pre)) : legalMoves(pre)[i] = Last(currentState.moves)

\* the sum of n_plays over the nodes under a set of keys
RECURSIVE SumPlays(_, _)
SumPlays(ns, under) ==
    IF under = {} THEN 0
    ELSE LET key == CHOOSE k \in under : TRUE
         IN  ns[key].n_plays + SumPlays(ns, under \ {key})

\* no turn of the loop of runSearch is under way
BetweenCycles == pc \in {"loop", "idle"}

\* the state of a node, as created or as it is now, has no outcome yet
NonTerminal(node) ==
    \/ checkWinWholeBoard(node.state) = "none"
    \/ checkWinWholeBoard(stateOf(node, currentState)) = "none"

\* C32: between cycles, over any number of runSearch calls on one engine, a
\* node created by expand whose state is not terminal has n_plays equal to
\* 1 plus the sum of n_plays of its expanded children, and a node without
\* parent (created by makeNode) whose state is not terminal has n_plays
\* equal to the sum of n_plays of its expanded children.
C32_VisitAccounting ==
    BetweenCycles =>
        \A key \in DOMAIN nodes :
            LET node == nodes[key]
                sum == SumPlays(nodes, ExpandedChildren(node))
            IN  NonTerminal(node) =>
                    node.n_plays = IF node.parent = NoNode THEN sum ELSE 1 + sum

\* after a second runSearch call, a node created by expand has an expanded
\* child, and its parentless parent has been played at least three times
C32_Witness ==
    /\ BetweenCycles
    /\ searches = 2
    /\ \E key \in DOMAIN nodes :
          /\ nodes[key].parent # NoNode
          /\ NonTerminal(nodes[key])
          /\ ExpandedChildren(nodes[key]) # {}
          /\ nodes[nodes[key].parent[1]].parent = NoNode
          /\ nodes[nodes[key].parent[1]].n_plays >= 3

\* the nodes on which the select of the latest cycle called getUCB1
Evaluated == selectEvaluated(cycle.before, searched.key[1])

\* C33: UCB1 is well defined wherever select evaluates it: only on a node
\* that has a parent, whose n_plays is at least 1 and whose parent's n_plays
\* is at least 1, never on a node without parent.
C33_UCB1WellDefined ==
    cycle # NoCycle =>
        \A key \in Evaluated :
            LET node == cycle.before[key]
            IN  /\ node.parent # NoNode
                /\ node.n_plays >= 1
                /\ cycle.before[node.parent[1]].n_plays >= 1
                /\ getUCB1(node, cycle.before[node.parent[1]], UCB1ExploreParam) >= 0

\* select evaluated UCB1 on the children of a node played at least three
\* times
C33_Witness ==
    /\ cycle # NoCycle
    /\ \E key \in Evaluated :
          /\ cycle.before[key].parent # NoNode
          /\ cycle.before[cycle.before[key].parent[1]].n_plays >= 3

\* no message waits in either direction (the worker, whose handler is one
\* step, is then idle)
Quiet == toWorker = <<>> /\ toUI = <<>>

\* C34: under every interleaving of clicks and messages, whenever the
\* worker is idle and no message is queued in either direction, the Game of
\* the page and the Game of the worker have the same move history.
C34_GamesAgreeWhenQuiet == Quiet => currentState.moves = workerGame.moves

====
